---- MODULE Spec2Model ----
(***************************************************************************)
(* Model of the Azure metrics plugin (tsa-plugin-az): execute() resolves   *)
(* the query parameters, lists the resources through the az command line   *)
(* tool, fans out one metrics query per resource and aggregates the        *)
(* normalized series into a labeled map while writing a progress line.     *)
(*                                                                         *)
(* JavaScript values are represented as follows.                           *)
(*   - a string that the code only compares or passes on is a TLA+ string; *)
(*     a string that a regular expression reads (a resource name, the      *)
(*     filter) is a tuple of one-character strings;                        *)
(*   - an object is a record; an optional property that is absent          *)
(*     (undefined) is a field outside the record's DOMAIN;                 *)
(*   - a JSON number-or-null is JNull or JNum(n);                          *)
(*   - a number produced by transformValue is an exact fraction            *)
(*     [num, den] in lowest terms (v / 1e9 is not an integer in general);  *)
(*   - an interval display string such as '15m' is the tuple <<15, "m">>.  *)
(***************************************************************************)
EXTENDS Integers, Sequences, FiniteSets, TLC

VARIABLES
    args,             \* ITSAPluginArgs of the call: [step |-> ms]
    options,          \* IAZPluginOptions of the call (optional fields)
    isTTY,            \* whether process.stdout is a terminal (a tty.WriteStream)
    runtime,          \* the Node.js release line the process runs on (AllRuntimes)
    pc,               \* where execute is: start, resolved, awaiting, returned, exited,
                      \* rejected
    fatal,            \* which process.exit(1) site ended the process, or "none"
    intervalValue,    \* execute: const intervalValue
    metricType,       \* execute: const metricType
    metrics,          \* execute: the native metric name inside `--metric "..."`
    listOutput,       \* the result of the exec of `az resource list`, or NoOutput
    listing,          \* what `az resource list` printed (parsed), as read by getVMIds
    vmIds,            \* execute: const vmIds
    totalQueries,     \* execute: const totalQueries
    completedQueries, \* execute: let completedQueries
    data,             \* execute: const data, its own properties (label -> series)
    dataProto,        \* execute: const data, its prototype
    pending,          \* positions in vmIds whose exec callback has not run yet
    received,         \* position in vmIds -> the response its exec callback got
    order,            \* the positions in vmIds in the order their callbacks ran
    progress,         \* the lines logProgress wrote: <<completed, total>> each
    execLog,          \* the external commands started, in order
    result            \* the value execute returned, or NoResult

vars == <<args, options, isTTY, runtime, pc, fatal, intervalValue, metricType, metrics, listOutput,
          listing, vmIds, totalQueries, completedQueries, data, dataProto, pending, received,
          order, progress, execLog, result>>

----------------------------------------------------------------------------
(* Bounds of the model *)

\* most resources `az resource list` returns in a run
MaxResources == 3
\* the step inputs of the quantizer are the multiples of StepGrid up to
\* MaxStepCount * StepGrid, plus the catalog durations and midpoints +-1
StepGrid == 30000
MaxStepCount == 5800
\* longest raw series given to the normalizer
MaxPoints == 2
\* longest listing given to the resource lister on its own
MaxListing == 3
\* longest listing of a run that holds a resource named '__proto__'
MaxProtoListing == 2
\* the point values given to the unit transform are the multiples of ValueGrid
\* up to MaxValueCount * ValueGrid, plus a few values around 0 and 1e9
ValueGrid == 250000000
MaxValueCount == 7

----------------------------------------------------------------------------
(* Generic helpers *)

Abs(x) == IF x < 0 THEN -x ELSE x

RECURSIVE Gcd(_, _)
Gcd(a, b) == IF b = 0 THEN a ELSE Gcd(b, a % b)

\* o[k] ?? d
OrDefault(o, k, d) == IF k \in DOMAIN o THEN o[k] ELSE d

Range(s) == {s[i] : i \in 1..Len(s)}

NoResult == [returned |-> FALSE]

\* no command has run yet
NoOutput == [started |-> FALSE]

\* {}: an object without properties
EmptyObject == [x \in {} |-> x]

----------------------------------------------------------------------------
(* enum MetricType and the table metricNamesForResourceType *)

MetricType == {"cpu", "ram", "memory_percent", "disk"}

DefaultResourceType == "Microsoft.Compute/virtualMachines"

metricNamesForResourceType ==
    [x \in {"Microsoft.Compute/virtualMachines", "Microsoft.DBforMySQL/flexibleServers"} |->
        IF x = "Microsoft.Compute/virtualMachines"
        THEN [cpu |-> "Percentage CPU", ram |-> "Available Memory Bytes"]
        ELSE [cpu |-> "cpu_percent", memory_percent |-> "memory_percent",
              disk |-> "storage_percent"]]

----------------------------------------------------------------------------
(* getValidInterval *)

\* timestring(display, 'ms'): the number times the unit's milliseconds
UnitMs(u) == CASE u = "m" -> 60000 [] u = "h" -> 3600000 [] u = "d" -> 86400000

timestring(display) == display[1] * UnitMs(display[2])

validIntervals ==
    LET displays == << <<1, "m">>, <<5, "m">>, <<15, "m">>, <<30, "m">>,
                       <<1, "h">>, <<6, "h">>, <<12, "h">>, <<1, "d">> >>
    IN  [i \in 1..Len(displays) |-> [display |-> displays[i], ms |-> timestring(displays[i])]]

\* the reduce callback with `<=` in place of `<`: a later equally close entry wins
CloserOrEqual(best, v, stepMS) ==
    IF Abs(v.ms - stepMS) <= Abs(best.ms - stepMS) THEN v ELSE best

\* the reduce callback: (best, v) => |v.ms - stepMS| < |best.ms - stepMS| ? v : best
Closer(best, v, stepMS) ==
    IF Abs(v.ms - stepMS) < Abs(best.ms - stepMS) THEN v ELSE best

\* Array.prototype.reduce over validIntervals from position i, accumulator best
RECURSIVE ReduceClosest(_, _, _)
ReduceClosest(best, i, stepMS) ==
    IF i > Len(validIntervals) THEN best
    ELSE ReduceClosest(Closer(best, validIntervals[i], stepMS), i + 1, stepMS)

getValidInterval(stepMS) == ReduceClosest(validIntervals[1], 1, stepMS).display

----------------------------------------------------------------------------
(* Property access on the objects mapMetricName reads. The table and its     *)
(* sub-maps are object literals, so obj[key] also finds what Object.prototype *)
(* provides; a value found that way may be a function, whose properties are   *)
(* read in turn; reading `caller` or `arguments` of a function throws.        *)

\* JavaScript values: kind is the value's type, text what a template literal
\* renders it as
JsString(str) == [kind |-> "string", text |-> str]
JsNumber(n) == [kind |-> "number", text |-> ToString(n), zero |-> n = 0]
JsFunction(fname) ==
    [kind |-> "function", text |-> "function " \o fname \o "() { [native code] }",
     fname |-> fname]
JsObjectPrototype == [kind |-> "object", text |-> "[object Object]"]
JsFunctionPrototype == JsFunction("")
JsNoValue == [kind |-> "undefined"]
JsNoObject == [kind |-> "null"]

\* the property access throws a TypeError instead of giving a value
JsThrows == [kind |-> "throws"]
JsPlainObject(own) == [kind |-> "object", text |-> "[object Object]", own |-> own]

\* the methods of Object.prototype, of Function.prototype and of Object
ObjectPrototypeMethods ==
    {"toString", "toLocaleString", "valueOf", "hasOwnProperty", "isPrototypeOf",
     "propertyIsEnumerable", "__defineGetter__", "__defineSetter__",
     "__lookupGetter__", "__lookupSetter__"}

FunctionPrototypeMethods == {"call", "apply", "bind", "toString"}

\* the accessors of Function.prototype whose getter is %ThrowTypeError%
PoisonedAccessors == {"caller", "arguments"}

\* the Node.js release lines told apart, from Node 14 on: the source names
\* no runtime, and the static methods of Object differ between them
Node14 == "node 14.0 - 16.8"
Node16 == "node 16.9 - 20"
Node21 == "node 21 and later"

AllRuntimes == {Node14, Node16, Node21}

\* the runtimes that define Object.hasOwn (ES2022) and Object.groupBy (ES2024)
RuntimesWithHasOwn == {Node16, Node21}

RuntimesWithGroupBy == {Node21}

\* the static methods of Object that every one of these runtimes defines
ObjectStaticMethodsES2019 ==
    {"assign", "create", "defineProperties", "defineProperty", "entries", "freeze",
     "fromEntries", "getOwnPropertyDescriptor", "getOwnPropertyDescriptors",
     "getOwnPropertyNames", "getOwnPropertySymbols", "getPrototypeOf", "is",
     "isExtensible", "isFrozen", "isSealed", "keys", "preventExtensions", "seal",
     "setPrototypeOf", "values"}

ObjectStaticMethodsES2022 == {"hasOwn"}

ObjectStaticMethodsES2024 == {"groupBy"}

NoStaticMethods == {}

\* the static methods of Object on the runtime rt
ObjectStaticMethodsOn(rt) ==
    ObjectStaticMethodsES2019
        \cup (IF rt \in RuntimesWithHasOwn THEN ObjectStaticMethodsES2022
              ELSE NoStaticMethods)
        \cup (IF rt \in RuntimesWithGroupBy THEN ObjectStaticMethodsES2024
              ELSE NoStaticMethods)

\* the static methods of Object on the runtime of the run
ObjectStaticMethods == ObjectStaticMethodsOn(runtime)

\* the functions that have a `prototype` property
Constructors == {"Object", "Function"}

\* the `length` (number of declared parameters) of the built-in functions
NoParameterMethods == {"", "toString", "toLocaleString", "valueOf"}

TwoParameterMethods ==
    {"__defineGetter__", "__defineSetter__", "apply", "assign", "create",
     "defineProperties", "getOwnPropertyDescriptor", "groupBy", "hasOwn", "is",
     "setPrototypeOf"}

ThreeParameterMethods == {"defineProperty"}

FunctionLength(fname) ==
    CASE fname \in NoParameterMethods -> 0
      [] fname \in TwoParameterMethods -> 2
      [] fname \in ThreeParameterMethods -> 3
      [] OTHER -> 1

\* key looked up on Object.prototype, for a receiver whose prototype is proto
FromObjectPrototype(key, proto) ==
    IF key = "constructor" THEN JsFunction("Object")
    ELSE IF key \in ObjectPrototypeMethods THEN JsFunction(key)
    ELSE IF key = "__proto__" THEN proto
    ELSE JsNoValue

\* obj[key] for an object literal with the own string properties `own`
GetOfPlainObject(own, key) ==
    IF key \in DOMAIN own THEN JsString(own[key])
    ELSE FromObjectPrototype(key, JsObjectPrototype)

\* f[key] for the built-in function named fname ("" is Function.prototype):
\* its own properties, then Function.prototype, then Object.prototype
GetOfFunction(fname, key) ==
    IF key = "name" THEN JsString(fname)
    ELSE IF key = "length" THEN JsNumber(FunctionLength(fname))
    ELSE IF key = "prototype" /\ fname \in Constructors
    THEN (IF fname = "Object" THEN JsObjectPrototype ELSE JsFunctionPrototype)
    ELSE IF fname = "Object" /\ key \in ObjectStaticMethods THEN JsFunction(key)
    ELSE IF key = "constructor" THEN JsFunction("Function")
    ELSE IF key \in FunctionPrototypeMethods THEN JsFunction(key)
    ELSE IF key \in PoisonedAccessors THEN JsThrows
    ELSE FromObjectPrototype(key, IF fname = "" THEN JsObjectPrototype
                                  ELSE JsFunctionPrototype)

\* metricNamesForResourceType[type]
GetOfTable(type) ==
    IF type \in DOMAIN metricNamesForResourceType
    THEN JsPlainObject(metricNamesForResourceType[type])
    ELSE FromObjectPrototype(type, JsObjectPrototype)

\* map[key] for the value map that metricNamesForResourceType[type] ?? {} gave
GetOfMap(map, key) ==
    CASE map.kind = "function" -> GetOfFunction(map.fname, key)
      [] map.kind = "object" /\ "own" \in DOMAIN map -> GetOfPlainObject(map.own, key)
      [] OTHER -> FromObjectPrototype(key, JsNoObject)

\* undefined and null
NullishKinds == {"undefined", "null"}

\* !value
Falsy(value) ==
    \/ value.kind \in NullishKinds
    \/ value.kind = "string" /\ value.text = ""
    \/ value.kind = "number" /\ value.zero

----------------------------------------------------------------------------
(* mapMetricName *)

\* mapMetricName without the exit: the name read from the table goes into the
\* command line as it is, 'undefined' for a pair that is not configured
mapMetricNameNeverFails(opts, mType) ==
    LET type == OrDefault(opts, "resource-type", DefaultResourceType)
        map  == IF type \in DOMAIN metricNamesForResourceType
                THEN metricNamesForResourceType[type]
                ELSE EmptyObject
    IN  [ok |-> TRUE, name |-> IF mType \in DOMAIN map THEN map[mType] ELSE "undefined"]

\* [ok |-> TRUE, name, kind] with the value found, name being its text inside
\* `--metric "..."`; [ok |-> FALSE, thrown |-> FALSE] when process.exit(1) is
\* called; [ok |-> FALSE, thrown |-> TRUE] when the lookup throws a TypeError
mapMetricName(opts, mType) ==
    LET type   == OrDefault(opts, "resource-type", DefaultResourceType)
        found  == GetOfTable(type)
        map    == IF found.kind \in NullishKinds THEN JsPlainObject(EmptyObject)
                  ELSE found
        metric == GetOfMap(map, mType)
    IN  IF metric.kind = "throws" THEN [ok |-> FALSE, thrown |-> TRUE]
        ELSE IF Falsy(metric) THEN [ok |-> FALSE, thrown |-> FALSE]
        ELSE [ok |-> TRUE, name |-> metric.text, kind |-> metric.kind]

----------------------------------------------------------------------------
(* RegExp: new RegExp(source) and RegExp.prototype.test, for sources made of *)
(* literal characters, ".", "^", "$" and "(" (an unterminated group).        *)

\* new RegExp(source) throws a SyntaxError
RegExpThrows(source) == "(" \in Range(source)

\* the pattern from position pi matches name starting at position ni
RECURSIVE MatchAt(_, _, _, _)
MatchAt(source, pi, name, ni) ==
    IF pi > Len(source) THEN TRUE
    ELSE CASE source[pi] = "^" -> ni = 1 /\ MatchAt(source, pi + 1, name, ni)
           [] source[pi] = "$" -> ni = Len(name) + 1 /\ MatchAt(source, pi + 1, name, ni)
           [] source[pi] = "." -> ni <= Len(name) /\ MatchAt(source, pi + 1, name, ni + 1)
           [] OTHER -> /\ ni <= Len(name)
                       /\ name[ni] = source[pi]
                       /\ MatchAt(source, pi + 1, name, ni + 1)

\* pattern.test(name): the first start position from lastIndex on that matches
RECURSIVE TestFrom(_, _, _)
TestFrom(source, name, lastIndex) ==
    IF lastIndex > Len(name) + 1 THEN FALSE
    ELSE MatchAt(source, 1, name, lastIndex) \/ TestFrom(source, name, lastIndex + 1)

RegExpTest(source, name) == TestFrom(source, name, 1)

----------------------------------------------------------------------------
(* getVMIds: the filter over the parsed listing and the {id, name} projection *)

\* !options.filter: the filter is absent or the empty string
NoFilter(opts) == "filter" \notin DOMAIN opts \/ opts["filter"] = <<>>

\* the filter callback throws (new RegExp) on the first element it is called on
FilterThrows(opts, listed) ==
    /\ Len(listed) > 0
    /\ ~NoFilter(opts)
    /\ RegExpThrows(opts["filter"])

\* the filter callback on element x
FilterCallback(opts, x) == NoFilter(opts) \/ RegExpTest(opts["filter"], x.name)

\* Array.prototype.filter then map(({id, name}) => ({id, name})), from position i
RECURSIVE FilterMapFrom(_, _, _)
FilterMapFrom(opts, listed, i) ==
    IF i > Len(listed) THEN <<>>
    ELSE (IF FilterCallback(opts, listed[i])
          THEN <<[id |-> listed[i].id, name |-> listed[i].name]>>
          ELSE <<>>) \o FilterMapFrom(opts, listed, i + 1)

\* getVMIds without the name filter: every listed resource is kept
getVMIdsUnfiltered(opts, listed) ==
    [throws |-> FALSE,
     value  |-> [i \in 1..Len(listed) |-> [id |-> listed[i].id, name |-> listed[i].name]]]

\* getVMIds on the parsed output of `az resource list`
getVMIds(opts, listed) ==
    IF FilterThrows(opts, listed) THEN [throws |-> TRUE]
    ELSE [throws |-> FALSE, value |-> FilterMapFrom(opts, listed, 1)]

\* the `az resource list ...` command line getVMIds builds
ListCommand(opts) ==
    [cmd   |-> "resource list",
     type  |-> OrDefault(opts, "resource-type", DefaultResourceType),
     group |-> IF "resource-group" \in DOMAIN opts /\ opts["resource-group"] # ""
               THEN opts["resource-group"] ELSE ""]

----------------------------------------------------------------------------
(* JSON values of a metrics payload *)

JNull == <<>>
JNum(n) == <<n>>

\* x is null or undefined, for the property k of object o
Nullish(o, k) == k \notin DOMAIN o \/ o[k] = JNull

JsUndefined == [kind |-> "undefined"]
JsNullValue == [kind |-> "null"]
JsArray(items) == [kind |-> "array", items |-> items]

\* if (x): an array is truthy, null and undefined are not
Truthy(x) == x.kind = "array"

----------------------------------------------------------------------------
(* getTimeSeries on the result of the exec of `az monitor metrics list`      *)
(* (the exit code is handled by execOrFailAsync before)                       *)

\* azAsync: JSON.parse throws on output that is not JSON
ParseThrows(resp) == ~resp.json

\* the destructuring and the read of timeseries.length throw a TypeError
ShapeThrows(doc) ==
    \/ "value" \notin DOMAIN doc
    \/ Len(doc.value) = 0
    \/ "timeseries" \notin DOMAIN doc.value[1]

\* timeseries.length > 0 ? timeseries[0].data : null
FirstSeries(doc) ==
    LET timeseries == doc.value[1].timeseries
    IN  IF Len(timeseries) > 0
        THEN (IF "data" \in DOMAIN timeseries[1]
              THEN JsArray(timeseries[1].data) ELSE JsUndefined)
        ELSE JsNullValue

\* getTimeSeries with the parse and the reads guarded: an output it cannot
\* read is a null series
getTimeSeriesNullOnMalformed(resp) ==
    IF ParseThrows(resp) \/ ShapeThrows(resp.doc) THEN [throws |-> FALSE, ts |-> JsNullValue]
    ELSE [throws |-> FALSE, ts |-> FirstSeries(resp.doc)]

getTimeSeries(resp) ==
    IF ParseThrows(resp) \/ ShapeThrows(resp.doc) THEN [throws |-> TRUE]
    ELSE [throws |-> FALSE, ts |-> FirstSeries(resp.doc)]

----------------------------------------------------------------------------
(* transformValue and mapTimeSeriesDataPoint *)

\* the fraction n / d in lowest terms (d > 0)
Fraction(n, d) == LET g == Gcd(n, d) IN [num |-> n \div g, den |-> d \div g]

GB == 1000000000

\* transformValue without the test of the metric: every value is divided
transformValueAlwaysGB(v, metric) == Fraction(v, GB)

transformValue(v, metric) ==
    IF metric = "ram" THEN Fraction(v, GB) ELSE Fraction(v, 1)

\* new Date(timeStamp): the instant the time stamp denotes
NewDate(timeStamp) == timeStamp

\* mapTimeSeriesDataPoint reading maximum before minimum
mapTimeSeriesDataPointMaxFirst(point, mType) ==
    IF ~Nullish(point, "average")
    THEN <<NewDate(point.timeStamp), transformValue(point.average[1], mType)>>
    ELSE IF ~Nullish(point, "maximum")
    THEN <<NewDate(point.timeStamp), transformValue(point.maximum[1], mType)>>
    ELSE IF ~Nullish(point, "minimum")
    THEN <<NewDate(point.timeStamp), transformValue(point.minimum[1], mType)>>
    ELSE JNull

\* point.average ?? point.minimum ?? point.maximum, then [Date, value] or null
mapTimeSeriesDataPoint(point, mType) ==
    IF ~Nullish(point, "average")
    THEN <<NewDate(point.timeStamp), transformValue(point.average[1], mType)>>
    ELSE IF ~Nullish(point, "minimum")
    THEN <<NewDate(point.timeStamp), transformValue(point.minimum[1], mType)>>
    ELSE IF ~Nullish(point, "maximum")
    THEN <<NewDate(point.timeStamp), transformValue(point.maximum[1], mType)>>
    ELSE JNull

\* rawSeries.map((x) => mapTimeSeriesDataPoint(x, metricType))
MapPoints(rawSeries, mType) ==
    [i \in 1..Len(rawSeries) |-> mapTimeSeriesDataPoint(rawSeries[i], mType)]

\* .filter((x) => !!x), from position i
RECURSIVE FilterPointsFrom(_, _)
FilterPointsFrom(mapped, i) ==
    IF i > Len(mapped) THEN <<>>
    ELSE (IF mapped[i] # JNull THEN <<mapped[i]>> ELSE <<>>) \o FilterPointsFrom(mapped, i + 1)

NormalizeSeries(rawSeries, mType) == FilterPointsFrom(MapPoints(rawSeries, mType), 1)

\* the earlier copy of execute (src/index.ts), which reads `average` alone:
\* .filter((x) => x.average !== null).map((x) => [Date, transformValue(x.average)]);
\* an absent average passes the filter and gives undefined (NaN for ram)
RECURSIVE NormalizeSeriesAverageOnly(_, _, _)
NormalizeSeriesAverageOnly(rawSeries, mType, i) ==
    IF i > Len(rawSeries) THEN <<>>
    ELSE LET x == rawSeries[i]
             v == IF "average" \in DOMAIN x THEN transformValue(x.average[1], mType)
                  ELSE IF mType = "ram" THEN [kind |-> "NaN"] ELSE [kind |-> "undefined"]
         IN  (IF "average" \in DOMAIN x /\ x.average = JNull
              THEN <<>> ELSE <<<<NewDate(x.timeStamp), v>>>>)
             \o NormalizeSeriesAverageOnly(rawSeries, mType, i + 1)

----------------------------------------------------------------------------
(* The result map `data`: an object literal, written by data[label] = series *)

\* the property name whose assignment on an object literal runs the setter of
\* Object.prototype.__proto__
ProtoKey == <<"_", "_", "p", "r", "o", "t", "o", "_", "_">>

\* the prototype of an object: Object.prototype for `{}`, or an array
ObjectLiteralPrototype == [kind |-> "Object.prototype", items |-> <<>>]

ArrayAsPrototype(series) == [kind |-> "array", items |-> series]

----------------------------------------------------------------------------
(* Inputs: the calls of execute and what the az tool answers *)

\* names and filters as tuples of characters
Web == <<"w", "e", "b">>
Db == <<"d", "b">>

\* the calls of execute explored by the run: step and options
RunCalls ==
    { [step |-> 420000, options |-> EmptyObject],
      [step |-> 3600000,
       options |-> ("resource-type" :> "Microsoft.Compute/virtualMachines")
                   @@ ("metric" :> "ram") @@ ("filter" :> <<"^", "w">>)],
      [step |-> 60000,
       options |-> ("resource-type" :> "Microsoft.DBforMySQL/flexibleServers")
                   @@ ("metric" :> "disk") @@ ("resource-group" :> "rg")
                   @@ ("filter" :> <<>>)],
      [step |-> 60000,
       options |-> ("resource-type" :> "Microsoft.DBforMySQL/flexibleServers")
                   @@ ("metric" :> "ram")],
      [step |-> 60000, options |-> ("resource-type" :> "Microsoft.Storage/storageAccounts")],
      [step |-> 300000, options |-> ("metric" :> "constructor") @@ ("filter" :> <<"^", "d">>)],
      [step |-> 60000,
       options |-> ("resource-type" :> "constructor") @@ ("metric" :> "caller")],
      [step |-> 60000,
       options |-> ("resource-type" :> "constructor") @@ ("metric" :> "groupBy")],
      [step |-> 60000,
       options |-> ("resource-type" :> "constructor") @@ ("metric" :> "hasOwn")
                   @@ ("filter" :> <<"^", "w">>)],
      [step |-> 60000, options |-> ("filter" :> <<"(">>)] }

\* the result of an exec: exit code, whether stdout is JSON, and the parsed document
Failed == [code |-> 1, json |-> FALSE]
FailedWith(d) == [code |-> 1, json |-> TRUE, doc |-> d]
Garbage == [code |-> 0, json |-> FALSE]
Doc(d) == [code |-> 0, json |-> TRUE, doc |-> d]

\* `az resource list` output: one resource per name, its id its position
ListingOf(names) ==
    [i \in 1..Len(names) |-> [id |-> i, name |-> names[i], location |-> "westus"]]

NameSeqs(nameSet, maxLen) == UNION {[1..n -> nameSet] : n \in 0..maxLen}

RunNames == {Web, Db}

ProtoNames == {Web, ProtoKey}

RunListOutputs ==
    {Failed, Garbage}
        \cup {Doc(ListingOf(ns)) : ns \in NameSeqs(RunNames, MaxResources)}
        \cup {Doc(ListingOf(ns)) : ns \in NameSeqs(ProtoNames, MaxProtoListing)}

\* `az monitor metrics list` output holding one time series with these points
SeriesDoc(points) == Doc([value |-> <<[timeseries |-> <<[data |-> points]>>]>>])

RunResponses ==
    { Failed,
      FailedWith([value |-> <<[timeseries |-> <<[data |-> <<>>]>>]>>]),
      Garbage,
      Doc([value |-> <<>>]),
      Doc([value |-> <<[unit |-> "Percent"]>>]),
      Doc([value |-> <<[timeseries |-> <<>>]>>]),
      Doc([value |-> <<[timeseries |-> <<[metadatavalues |-> <<>>]>>]>>]),
      SeriesDoc(<<>>),
      SeriesDoc(<<[timeStamp |-> 1], [timeStamp |-> 2, average |-> JNull]>>),
      SeriesDoc(<<[timeStamp |-> 1, average |-> JNum(5), minimum |-> JNum(1),
                   maximum |-> JNum(9)],
                  [timeStamp |-> 2, minimum |-> JNum(1), maximum |-> JNum(9)]>>) }

\* the runtimes a call is explored on: every one when the metric is looked
\* up on the function Object (resource type 'constructor'), the newest one
\* otherwise, where no property that depends on the runtime is read
NewestRuntime == {Node21}

Runtimes(opts) ==
    IF "resource-type" \in DOMAIN opts /\ opts["resource-type"] = "constructor"
    THEN AllRuntimes
    ELSE NewestRuntime

----------------------------------------------------------------------------
(* execute *)

Init ==
    /\ \E c \in RunCalls : args = [step |-> c.step] /\ options = c.options
    /\ isTTY \in BOOLEAN
    /\ runtime \in Runtimes(options)
    /\ pc = "start"
    /\ fatal = "none"
    /\ intervalValue = <<>>
    /\ metricType = ""
    /\ metrics = ""
    /\ listOutput = NoOutput
    /\ listing = <<>>
    /\ vmIds = <<>>
    /\ totalQueries = 0
    /\ completedQueries = 0
    /\ data = EmptyObject
    /\ dataProto = ObjectLiteralPrototype
    /\ pending = {}
    /\ received = EmptyObject
    /\ order = <<>>
    /\ progress = <<>>
    /\ execLog = <<>>
    /\ result = NoResult

\* the error is logged but process.exit(1) is not called: the run goes on
ExitSkipped(site) == pc' = pc /\ fatal' = fatal

\* process.exit(1) at the site `site`
Exit(site) == pc' = "exited" /\ fatal' = site

\* an exception leaves execute outside its try: the promise execute returned
\* is rejected and process.exit is not called
Reject == pc' = "rejected" /\ fatal' = fatal

\* lines 198-211: the interval, the metric type and the native metric name
Resolve ==
    /\ pc = "start"
    /\ intervalValue' = getValidInterval(args.step)
    /\ metricType' = OrDefault(options, "metric", "cpu")
    /\ LET m == mapMetricName(options, metricType')
       IN  IF m.ok
           THEN metrics' = m.name /\ pc' = "resolved" /\ fatal' = fatal
           ELSE IF m.thrown
           THEN metrics' = metrics /\ Reject
           ELSE metrics' = metrics /\ Exit("unsupported")
    /\ UNCHANGED <<args, options, isTTY, runtime, listOutput, listing, vmIds, totalQueries,
                   completedQueries, data, dataProto, pending, received, order, progress, execLog,
                   result>>

\* execOrFailAsync with the exit code never looked at
CommandFailedNever(r) == FALSE

\* execOrFail, execOrFailAsync: if (code !== 0)
CommandFailed(r) == r.code # 0

\* const totalQueries = vmIds.length, one short
TotalQueriesOneShort(ids) == Len(ids) - 1

\* const totalQueries = vmIds.length
TotalQueries(ids) == Len(ids)

\* logProgress throws a TypeError: process.stdout.clearLine is a method of
\* tty.WriteStream only, so it is undefined when stdout is a pipe or a file
LogProgressThrows(tty) == ~tty

\* logProgress on a terminal: one line with the two counters
LogProgress(log, completed, total) == Append(log, <<completed, total>>)

\* the `az monitor metrics list` command of getTimeSeries for resource id
MetricsCommand(id) ==
    [cmd |-> "monitor metrics list", resource |-> id, metric |-> metrics,
     interval |-> intervalValue]

\* lines 214-247 up to the await: list, first progress line, start every fetch;
\* when the first logProgress() throws, the catch block ends the process
\* before any fetch is started
List(outputs) ==
    /\ pc = "resolved"
    /\ \E out \in outputs :
        LET ids == getVMIds(options, out.doc)
        IN  IF CommandFailed(out) \/ ParseThrows(out) \/ ids.throws
            THEN /\ Exit(IF CommandFailed(out) THEN "command" ELSE "exception")
                 /\ listOutput' = out
                 /\ listing' = IF ~CommandFailed(out) /\ ~ParseThrows(out)
                               THEN out.doc ELSE listing
                 /\ execLog' = Append(execLog, ListCommand(options))
                 /\ UNCHANGED <<vmIds, totalQueries, completedQueries, data, dataProto, pending,
                                progress>>
            ELSE /\ listOutput' = out
                 /\ listing' = out.doc
                 /\ vmIds' = ids.value
                 /\ totalQueries' = TotalQueries(ids.value)
                 /\ completedQueries' = 0
                 /\ data' = EmptyObject
                 /\ dataProto' = ObjectLiteralPrototype
                 /\ IF LogProgressThrows(isTTY)
                    THEN /\ Exit("exception")
                         /\ execLog' = Append(execLog, ListCommand(options))
                         /\ UNCHANGED <<pending, progress>>
                    ELSE /\ progress' = LogProgress(progress, 0, totalQueries')
                         /\ pending' = 1..Len(ids.value)
                         /\ execLog' = <<ListCommand(options)>>
                                       \o [i \in 1..Len(ids.value) |->
                                              MetricsCommand(ids.value[i].id)]
                         /\ pc' = "awaiting"
                         /\ fatal' = fatal
    /\ UNCHANGED <<args, options, isTTY, runtime, intervalValue, metricType, metrics, received, order,
                   result>>

\* completedQueries += 1 left out
NotIncremented(n) == n

\* completedQueries += 2
IncrementTwice(n) == n + 2

\* completedQueries += 1
Increment(n) == n + 1

\* data = { [label]: series }: the map is replaced, not extended
WriteEntryReplacing(map, label, series) == (label :> series)

\* data[label] = series, the own properties of data afterwards: the entry is
\* created or replaced, except under '__proto__', which adds no property
WriteEntry(map, label, series) ==
    IF label = ProtoKey THEN map ELSE (label :> series) @@ map

\* data[label] = series, the prototype of data afterwards: under '__proto__'
\* the series (an array, so an object) becomes the prototype
WritePrototype(proto, label, series) ==
    IF label = ProtoKey THEN ArrayAsPrototype(series) ELSE proto

\* the exec callback of the fetch at position i of vmIds and the continuations it
\* resumes, with the response resp
Complete(i, resp) ==
    /\ pc = "awaiting"
    /\ i \in pending
    /\ pending' = pending \ {i}
    /\ received' = (i :> resp) @@ received
    /\ order' = Append(order, i)
    /\ LET fetched == getTimeSeries(resp)
       IN  IF CommandFailed(resp) \/ fetched.throws
           THEN /\ Exit(IF CommandFailed(resp) THEN "command" ELSE "exception")
                /\ UNCHANGED <<data, dataProto, completedQueries, progress>>
           ELSE /\ data' = IF Truthy(fetched.ts)
                           THEN WriteEntry(data, vmIds[i].name,
                                           NormalizeSeries(fetched.ts.items, metricType))
                           ELSE data
                /\ dataProto' = IF Truthy(fetched.ts)
                                THEN WritePrototype(dataProto, vmIds[i].name,
                                                    NormalizeSeries(fetched.ts.items,
                                                                    metricType))
                                ELSE dataProto
                /\ completedQueries' = Increment(completedQueries)
                /\ IF LogProgressThrows(isTTY)
                   THEN Exit("exception") /\ progress' = progress
                   ELSE /\ progress' = LogProgress(progress, completedQueries', totalQueries)
                        /\ UNCHANGED <<pc, fatal>>
    /\ UNCHANGED <<args, options, isTTY, runtime, intervalValue, metricType, metrics, listOutput,
                   listing, vmIds, totalQueries, execLog, result>>

\* execute without `await Promise.all(dataPromises)`: { data } is returned
\* while fetches are in flight
ReturnWithoutAwait ==
    /\ pc = "awaiting"
    /\ pc' = "returned"
    /\ result' = [returned |-> TRUE, data |-> data]
    /\ UNCHANGED <<args, options, isTTY, runtime, fatal, intervalValue, metricType, metrics, listOutput,
                   listing, vmIds, totalQueries, completedQueries, data, dataProto, pending, received,
                   order, progress, execLog>>

\* lines 247-252: Promise.all has resolved, execute returns { data }
Return ==
    /\ pc = "awaiting"
    /\ pending = {}
    /\ pc' = "returned"
    /\ result' = [returned |-> TRUE, data |-> data]
    /\ UNCHANGED <<args, options, isTTY, runtime, fatal, intervalValue, metricType, metrics, listOutput,
                   listing, vmIds, totalQueries, completedQueries, data, dataProto, pending, received,
                   order, progress, execLog>>

ListResources == List(RunListOutputs)

CompleteFetch == \E i \in pending : \E resp \in RunResponses : Complete(i, resp)

Next == Resolve \/ ListResources \/ CompleteFetch \/ Return

Spec == Init /\ [][Next]_vars

\* one response of each outcome a fetch can have: a failed command, an output
\* that is not JSON, a payload getTimeSeries throws on, no series, a series
OutcomeResponses ==
    { Failed,
      Garbage,
      Doc([value |-> <<>>]),
      Doc([value |-> <<[timeseries |-> <<>>]>>]),
      SeriesDoc(<<[timeStamp |-> 1, average |-> JNum(5)]>>) }

CompleteWithOutcome == \E i \in pending : \E resp \in OutcomeResponses : Complete(i, resp)

NextOutcomes == Resolve \/ ListResources \/ CompleteWithOutcome \/ Return

\* the run when the synchronous code of execute runs on, every exec callback of
\* a started command is eventually called, and a resolved Promise.all resumes
\* execute
FairSpec ==
    /\ Init
    /\ [][NextOutcomes]_vars
    /\ WF_vars(Resolve)
    /\ WF_vars(ListResources)
    /\ WF_vars(CompleteWithOutcome)
    /\ WF_vars(Return)

----------------------------------------------------------------------------
(* The quantizer and the resolver on their whole input domain: execute up to *)
(* the fan-out over a one-resource listing                                    *)

\* the catalog durations, the midpoints of neighbouring entries, each +-1
SpecialSteps ==
    LET ms(i) == validIntervals[i].ms
        around(x) == {x - 1, x, x + 1}
    IN  UNION {around(ms(i)) : i \in 1..Len(validIntervals)}
        \cup UNION {around((ms(i) + ms(i + 1)) \div 2) : i \in 1..(Len(validIntervals) - 1)}

AllSteps == {k * StepGrid : k \in 0..MaxStepCount} \cup SpecialSteps

\* names of properties that objects and functions have without being given them
InheritedNames ==
    {"constructor", "__proto__", "toString", "name", "length", "hasOwn", "groupBy",
     "caller", "arguments"}

ResourceTypes ==
    {"Microsoft.Compute/virtualMachines", "Microsoft.DBforMySQL/flexibleServers",
     "Microsoft.Storage/storageAccounts", ""} \cup InheritedNames

MetricWords == MetricType \cup {"iops"} \cup InheritedNames

\* every combination of an optional resource type and an optional metric
AllTypeMetricOptions ==
    {t @@ m : t \in {EmptyObject} \cup {("resource-type" :> x) : x \in ResourceTypes},
              m \in {EmptyObject} \cup {("metric" :> x) : x \in MetricWords}}

InitResolve ==
    /\ \/ args \in [step : AllSteps] /\ options = EmptyObject
       \/ args \in [step : {60000, 420000}] /\ options \in AllTypeMetricOptions
    /\ isTTY \in BOOLEAN
    /\ runtime \in AllRuntimes
    /\ pc = "start"
    /\ fatal = "none"
    /\ intervalValue = <<>>
    /\ metricType = ""
    /\ metrics = ""
    /\ listOutput = NoOutput
    /\ listing = <<>>
    /\ vmIds = <<>>
    /\ totalQueries = 0
    /\ completedQueries = 0
    /\ data = EmptyObject
    /\ dataProto = ObjectLiteralPrototype
    /\ pending = {}
    /\ received = EmptyObject
    /\ order = <<>>
    /\ progress = <<>>
    /\ execLog = <<>>
    /\ result = NoResult

OneResourceOutputs == {Failed, Doc(ListingOf(<<Web>>))}

ListOneResource == List(OneResourceOutputs)

NextResolve == Resolve \/ ListOneResource

SpecResolve == InitResolve /\ [][NextResolve]_vars

----------------------------------------------------------------------------
(* The resource lister on its own input domain: execute up to the listing *)

ListerNames == UNION {[1..n -> {"w", "d"}] : n \in 1..2}

ListerFilters ==
    { <<>>, <<"w">>, <<"^", "w">>, <<"w", "$">>, <<"^", "w", "$">>, <<"d", "w">>,
      <<".", "w">>, <<"^", ".", "$">>, <<"(">> }

InitLister ==
    /\ args = [step |-> 60000]
    /\ options \in {EmptyObject} \cup {("filter" :> f) : f \in ListerFilters}
    /\ isTTY \in BOOLEAN
    /\ runtime \in Runtimes(options)
    /\ pc = "start"
    /\ fatal = "none"
    /\ intervalValue = <<>>
    /\ metricType = ""
    /\ metrics = ""
    /\ listOutput = NoOutput
    /\ listing = <<>>
    /\ vmIds = <<>>
    /\ totalQueries = 0
    /\ completedQueries = 0
    /\ data = EmptyObject
    /\ dataProto = ObjectLiteralPrototype
    /\ pending = {}
    /\ received = EmptyObject
    /\ order = <<>>
    /\ progress = <<>>
    /\ execLog = <<>>
    /\ result = NoResult

ListerOutputs ==
    {Failed, Garbage} \cup {Doc(ListingOf(ns)) : ns \in NameSeqs(ListerNames, MaxListing)}

ListAnyListing == List(ListerOutputs)

NextLister == Resolve \/ ListAnyListing

SpecLister == InitLister /\ [][NextLister]_vars

----------------------------------------------------------------------------
(* The normalizer on its own input domain: a run over one resource whose     *)
(* metrics query answers with any series of up to MaxPoints points           *)

\* the value fields a raw point may carry: each absent, null or a number
PointFields ==
    {a @@ mn @@ mx :
        a  \in {EmptyObject, [average |-> JNull], [average |-> JNum(0)], [average |-> JNum(5)]},
        mn \in {EmptyObject, [minimum |-> JNull], [minimum |-> JNum(1)]},
        mx \in {EmptyObject, [maximum |-> JNull], [maximum |-> JNum(9)]}}

\* the raw series of n points, the time stamp of a point its position
SeriesOfLength(n) ==
    {[i \in 1..n |-> [timeStamp |-> i] @@ f[i]] : f \in [1..n -> PointFields]}

InitNormalize ==
    /\ args = [step |-> 60000]
    /\ options \in {EmptyObject, [metric |-> "ram"]}
    /\ isTTY \in BOOLEAN
    /\ runtime \in Runtimes(options)
    /\ pc = "start"
    /\ fatal = "none"
    /\ intervalValue = <<>>
    /\ metricType = ""
    /\ metrics = ""
    /\ listOutput = NoOutput
    /\ listing = <<>>
    /\ vmIds = <<>>
    /\ totalQueries = 0
    /\ completedQueries = 0
    /\ data = EmptyObject
    /\ dataProto = ObjectLiteralPrototype
    /\ pending = {}
    /\ received = EmptyObject
    /\ order = <<>>
    /\ progress = <<>>
    /\ execLog = <<>>
    /\ result = NoResult

OnlyWebOutputs == {Doc(ListingOf(<<Web>>))}

ListOnlyWeb == List(OnlyWebOutputs)

CompleteAnySeries ==
    \E i \in pending : \E n \in 0..MaxPoints : \E points \in SeriesOfLength(n) :
        Complete(i, SeriesDoc(points))

NextNormalize == Resolve \/ ListOnlyWeb \/ CompleteAnySeries \/ Return

SpecNormalize == InitNormalize /\ [][NextNormalize]_vars

----------------------------------------------------------------------------
(* The unit transform on its own input domain: a run over one resource whose *)
(* metrics query answers with one point, for every configured metric         *)

TransformValues ==
    {k * ValueGrid : k \in 0..MaxValueCount}
    \cup {-5, 1, 42, 999999999, 1000000001, 1500000000, 2000000000}

\* the options of every configured (resource type, metric) pair
ConfiguredOptions ==
    {("resource-type" :> t) @@ ("metric" :> m) :
        t \in DOMAIN metricNamesForResourceType, m \in MetricType}

InitTransform ==
    /\ args = [step |-> 60000]
    /\ options \in {o \in ConfiguredOptions : mapMetricName(o, o["metric"]).ok}
    /\ isTTY \in BOOLEAN
    /\ runtime \in Runtimes(options)
    /\ pc = "start"
    /\ fatal = "none"
    /\ intervalValue = <<>>
    /\ metricType = ""
    /\ metrics = ""
    /\ listOutput = NoOutput
    /\ listing = <<>>
    /\ vmIds = <<>>
    /\ totalQueries = 0
    /\ completedQueries = 0
    /\ data = EmptyObject
    /\ dataProto = ObjectLiteralPrototype
    /\ pending = {}
    /\ received = EmptyObject
    /\ order = <<>>
    /\ progress = <<>>
    /\ execLog = <<>>
    /\ result = NoResult

\* a series of one point whose average, minimum or maximum is v
OnePointSeries(v) ==
    { <<[timeStamp |-> 1, average |-> JNum(v)]>>,
      <<[timeStamp |-> 1, average |-> JNull, minimum |-> JNum(v)]>>,
      <<[timeStamp |-> 1, maximum |-> JNum(v)]>> }

CompleteAnyValue ==
    \E i \in pending : \E v \in TransformValues : \E points \in OnePointSeries(v) :
        Complete(i, SeriesDoc(points))

NextTransform == Resolve \/ ListOnlyWeb \/ CompleteAnyValue \/ Return

SpecTransform == InitTransform /\ [][NextTransform]_vars

----------------------------------------------------------------------------
(* The run on outputs of exit code 0 that are not what the code expects: not *)
(* JSON, or a metrics payload without `value`, with an empty `value`, or     *)
(* without `timeseries`, beside a payload without series and one with        *)

MalformedAndGoodResponses ==
    { Garbage,
      Doc([error |-> "x"]),
      Doc([value |-> <<>>]),
      Doc([value |-> <<[unit |-> "Percent"]>>]),
      Doc([value |-> <<[timeseries |-> <<>>]>>]),
      SeriesDoc(<<[timeStamp |-> 1, average |-> JNum(5)]>>) }

CompleteMalformedOrGood ==
    \E i \in pending : \E resp \in MalformedAndGoodResponses : Complete(i, resp)

NextMalformed == Resolve \/ ListResources \/ CompleteMalformedOrGood \/ Return

SpecMalformed == Init /\ [][NextMalformed]_vars

----------------------------------------------------------------------------
(* Properties of a run of execute *)

\* where execute is once the listing is done and no exit happened
ListingDone == {"awaiting", "returned"}

\* the positions of vmIds
Positions == 1..Len(vmIds)

\* the place of position i in the completion order
PlaceOf(i) == CHOOSE k \in 1..Len(order) : order[k] = i

\* the response of position i carries a series array, and its value
HasSeries(i) ==
    /\ i \in DOMAIN received
    /\ received[i].code = 0
    /\ received[i].json
    /\ ~ShapeThrows(received[i].doc)
    /\ FirstSeries(received[i].doc).kind = "array"

RawSeriesOf(i) == FirstSeries(received[i].doc).items

NormalizedOf(i) == NormalizeSeries(RawSeriesOf(i), metricType)

\* C1 as stated: over N resources whose fetches all succeed, logProgress is
\* invoked exactly N times, the completed count growing by 1 from one
\* invocation to the next and the total being N on every one.
C1_ProgressInvokedNTimes ==
    pc = "returned" =>
        /\ Len(progress) = Len(vmIds)
        /\ \A k \in 1..Len(progress) : progress[k][2] = Len(vmIds)
        /\ \A k \in 1..(Len(progress) - 1) : progress[k + 1][1] = progress[k][1] + 1

\* C1 amended: logProgress is invoked exactly N + 1 times, once with (0, N)
\* before any fetch completes and once after each completion, whatever the
\* completion order: the k-th line is (k - 1, N).
C1_ProgressInvokedNPlusOneTimes ==
    /\ \A k \in 1..Len(progress) : progress[k] = <<k - 1, Len(vmIds)>>
    /\ pc = "awaiting" => Len(progress) = Len(order) + 1
    /\ pc = "returned" => Len(progress) = Len(vmIds) + 1

C1_Witness ==
    /\ pc = "returned"
    /\ Len(vmIds) = 3
    /\ order = <<3, 1, 2>>
    /\ Len(progress) = 4

\* C2: in every state completedQueries <= totalQueries; totalQueries is the
\* number of resources getVMIds returned (the listed resources that pass the
\* name filter) and no step changes it once the listing is done.
C2_CompletedWithinTotal ==
    /\ [](/\ completedQueries <= totalQueries
          /\ pc \in ListingDone =>
                /\ totalQueries = Len(vmIds)
                /\ totalQueries = Cardinality({i \in 1..Len(listing) :
                                                 FilterCallback(options, listing[i])}))
    /\ [][(pc \in ListingDone) => (totalQueries' = totalQueries)]_vars

C2_Witness ==
    /\ pc = "awaiting"
    /\ totalQueries = 2
    /\ completedQueries = totalQueries
    /\ Len(listing) = 3
    /\ order = <<2, 1>>

\* some fetch's external invocation ended with a non-zero exit code
FailedFetch == \E i \in DOMAIN received : received[i].code # 0

\* C3: once the invocation of one fetch has failed, whatever the other fetches
\* did, the process has exited on the failed command without a result map, the
\* failing step writes no progress line and starts no command (no retry), and
\* nothing happens afterwards.
C3_FailFast ==
    /\ [](FailedFetch =>
            /\ pc = "exited"
            /\ fatal = "command"
            /\ result = NoResult
            /\ \A i \in Positions :
                 Cardinality({k \in 1..Len(execLog) :
                                execLog[k] = MetricsCommand(vmIds[i].id)}) = 1)
    /\ [][FailedFetch' => (progress' = progress /\ execLog' = execLog)]_vars

C3_Witness ==
    /\ FailedFetch
    /\ Len(vmIds) = 3
    /\ Len(order) = 2
    /\ received[order[2]].code # 0
    /\ received[order[2]].json
    /\ pending # {}
    /\ Len(progress) = 2

\* the map a run builds when the fetches complete in the listing's order: each
\* the names under which data[label] = series creates a property
OwnLabels(names) == names \ {ProtoKey}

\* the map the listing's order gives: label holds the series of the last
\* listed resource of that name with a series
ListingOrderMap ==
    LET labels == OwnLabels({vmIds[i].name : i \in {j \in Positions : HasSeries(j)}})
        last(l) == CHOOSE i \in Positions :
                      /\ HasSeries(i) /\ vmIds[i].name = l
                      /\ \A j \in Positions : HasSeries(j) /\ vmIds[j].name = l => j <= i
    IN  [l \in labels |-> NormalizedOf(last(l))]

\* C4 as stated: for a fixed listing and fixed responses the returned map is
\* the same for every completion order (it is the map of the listing's
\* order), also when two resources have the same name.
C4_MapSameForEveryOrder == pc = "returned" => result.data = ListingOrderMap

\* no two resources of the same name answer with different series
NoConflictingLabels ==
    \A i, j \in Positions :
        HasSeries(i) /\ HasSeries(j) /\ vmIds[i].name = vmIds[j].name
            => NormalizedOf(i) = NormalizedOf(j)

\* C4 amended: the returned map is the same for every completion order unless
\* two resources of the same name answer with different series.
C4_MapSameWithoutConflict ==
    pc = "returned" /\ NoConflictingLabels => result.data = ListingOrderMap

C4_Witness ==
    /\ pc = "returned"
    /\ NoConflictingLabels
    /\ order = <<3, 2, 1>>
    /\ \A i \in Positions : HasSeries(i)
    /\ vmIds[1].name = vmIds[3].name
    /\ Cardinality(DOMAIN result.data) = 2
    /\ \E l \in DOMAIN result.data : result.data[l] # <<>>

\* the response of position i is a parsed payload without a time-series array
NoTimeSeriesArray(i) ==
    /\ received[i].code = 0
    /\ received[i].json
    /\ "value" \in DOMAIN received[i].doc
    /\ \/ Len(received[i].doc.value) = 0
       \/ "timeseries" \notin DOMAIN received[i].doc.value[1]

\* C5: a resource whose response holds no time-series array is a null result:
\* its completion does not abort the run and is counted as completed.
C5_NoSeriesArrayIsNullResult ==
    \A i \in DOMAIN received :
        NoTimeSeriesArray(i) /\ order[Len(order)] = i
            => pc # "exited" /\ completedQueries = Len(order)

\* position i answered with a series that normalizes to no point
EmptySeriesAt(i) == HasSeries(i) /\ NormalizedOf(i) = <<>>

\* C6: every resource whose series exists and normalizes to no point has its
\* name in the returned map with an empty sequence as value. (It fails for a
\* resource named '__proto__', which leaves no entry; and when a resource of
\* the same name with a non-empty series completes later.)
C6_EmptySeriesEntryAlways ==
    pc = "returned" =>
        \A i \in Positions :
            EmptySeriesAt(i) =>
                /\ vmIds[i].name \in DOMAIN result.data
                /\ result.data[vmIds[i].name] = <<>>

----------------------------------------------------------------------------
(* Properties of the quantizer and the resolver (under SpecResolve) *)

\* the supported intervals as documented: display and duration in milliseconds
Catalog ==
    { [display |-> <<1, "m">>, ms |-> 60000], [display |-> <<5, "m">>, ms |-> 300000],
      [display |-> <<15, "m">>, ms |-> 900000], [display |-> <<30, "m">>, ms |-> 1800000],
      [display |-> <<1, "h">>, ms |-> 3600000], [display |-> <<6, "h">>, ms |-> 21600000],
      [display |-> <<12, "h">>, ms |-> 43200000], [display |-> <<1, "d">>, ms |-> 86400000] }

\* C7: getValidInterval(step) is always a catalog entry, no entry is closer
\* to step than it, and an equally close entry is never smaller (on a tie
\* the smaller entry is returned).
C7_NearestInterval ==
    pc # "start" =>
        \E e \in Catalog :
            /\ intervalValue = e.display
            /\ \A o \in Catalog :
                 /\ Abs(e.ms - args.step) <= Abs(o.ms - args.step)
                 /\ Abs(e.ms - args.step) = Abs(o.ms - args.step) => e.ms <= o.ms

C7_Witness ==
    /\ pc = "awaiting"
    /\ args.step = 12600000
    /\ intervalValue = <<1, "h">>
    /\ execLog[2].interval = <<1, "h">>

\* the resource type and the metric the call asks for
RequestedType == IF "resource-type" \in DOMAIN options THEN options["resource-type"]
                 ELSE "Microsoft.Compute/virtualMachines"

RequestedMetric == IF "metric" \in DOMAIN options THEN options["metric"] ELSE "cpu"

PairConfigured ==
    /\ RequestedType \in DOMAIN metricNamesForResourceType
    /\ RequestedMetric \in DOMAIN metricNamesForResourceType[RequestedType]

\* C8: once the metric name is resolved, a configured (resource type, metric)
\* pair has given exactly the configured native name, which is the name every
\* metrics query carries; any other pair has ended the process as unsupported
\* with no external command started. (It fails on every runtime for a metric
\* or resource type that names a property every object has, such as
\* `constructor`.)
C8_ResolverComplete ==
    pc # "start" =>
        IF PairConfigured
        THEN /\ fatal # "unsupported"
             /\ metrics = metricNamesForResourceType[RequestedType][RequestedMetric]
             /\ \A k \in 1..Len(execLog) :
                  execLog[k].cmd = "monitor metrics list" => execLog[k].metric = metrics
        ELSE /\ pc = "exited"
             /\ fatal = "unsupported"
             /\ execLog = <<>>

----------------------------------------------------------------------------
(* Property of the normalizer (under SpecNormalize) *)

ValueFields == {"average", "minimum", "maximum"}

OnlyMaximum == {"maximum"}

\* the value fields of a raw point that hold a number
Present(point) == {f \in ValueFields : f \in DOMAIN point /\ point[f] # JNull}

\* the first present value of a point in the order average, minimum, maximum
FirstPresent(point) ==
    CASE "average" \in Present(point) -> point.average[1]
      [] "average" \notin Present(point) /\ "minimum" \in Present(point) -> point.minimum[1]
      [] Present(point) = OnlyMaximum -> point.maximum[1]

\* the positions of a raw series that hold some value, and the j-th of them
KeptPositions(raw) == {k \in 1..Len(raw) : Present(raw[k]) # {}}

KeptAt(raw, j) ==
    CHOOSE k \in KeptPositions(raw) : Cardinality({x \in KeptPositions(raw) : x < k}) = j - 1

\* the value of the metric's unit: bytes as GB for ram, unchanged otherwise
InUnit(v) == IF metricType = "ram" THEN Fraction(v, 1000000000) ELSE [num |-> v, den |-> 1]

\* every point of the raw series has the shape the earlier copy declares for
\* IMetricDataPoint: a time stamp and an average (a number or null)
AverageOnlyFields == {"timeStamp", "average"}

AverageOnlyShape(raw) == \A k \in 1..Len(raw) : DOMAIN raw[k] = AverageOnlyFields

\* C9: the series written for a resource is the raw series in the provider's
\* order without the points whose average, minimum and maximum are all absent
\* or null, each remaining point (a value of 0 included) carrying its time
\* stamp and, in the metric's unit, its first present value in the order
\* average, minimum, maximum. On points that carry an average alone the
\* earlier copy of execute writes the same series.
C9_NormalizedSeries ==
    \A i \in DOMAIN received :
        HasSeries(i) =>
            LET raw == RawSeriesOf(i)
                out == data[vmIds[i].name]
            IN  /\ Len(out) = Cardinality(KeptPositions(raw))
                /\ \A j \in 1..Len(out) :
                     out[j] = <<raw[KeptAt(raw, j)].timeStamp,
                                InUnit(FirstPresent(raw[KeptAt(raw, j)]))>>
                /\ AverageOnlyShape(raw) =>
                     NormalizeSeriesAverageOnly(raw, metricType, 1) = out

\* a point with a null average and a minimum of 1, then a point with an
\* average of 0 beside a minimum and a maximum, and their normalized series
C9_WitnessRaw ==
    <<[timeStamp |-> 1, average |-> JNull, minimum |-> JNum(1)],
      [timeStamp |-> 2, average |-> JNum(0), minimum |-> JNum(1), maximum |-> JNum(9)]>>

C9_WitnessSeries == <<<<1, [num |-> 1, den |-> 1]>>, <<2, [num |-> 0, den |-> 1]>>>>

C9_Witness ==
    /\ pc = "returned"
    /\ metricType = "cpu"
    /\ RawSeriesOf(1) = C9_WitnessRaw
    /\ result.data[Web] = C9_WitnessSeries

----------------------------------------------------------------------------
(* Property of the resource lister (under SpecLister) *)

\* name matches the filter: some stretch of the name equals the filter's
\* characters ("." standing for any character), at the start of the name
\* when the filter begins with "^", up to its end when the filter ends with "$"
NameMatches(filter, name) ==
    LET atStart == Len(filter) > 0 /\ filter[1] = "^"
        atEnd   == Len(filter) > 0 /\ filter[Len(filter)] = "$"
        from    == IF atStart THEN 2 ELSE 1
        to      == IF atEnd THEN Len(filter) - 1 ELSE Len(filter)
        body    == SubSeq(filter, from, to)
    IN  \E s \in 1..(Len(name) + 1) :
            /\ s + Len(body) - 1 <= Len(name)
            /\ \A k \in 1..Len(body) : body[k] = "." \/ body[k] = name[s + k - 1]
            /\ atStart => s = 1
            /\ atEnd => s + Len(body) - 1 = Len(name)

\* the positions of the listing the call's filter keeps, and the j-th of them
Listed ==
    {k \in 1..Len(listing) :
        \/ "filter" \notin DOMAIN options
        \/ options["filter"] = <<>>
        \/ NameMatches(options["filter"], listing[k].name)}

ListedAt(j) == CHOOSE k \in Listed : Cardinality({x \in Listed : x < k}) = j - 1

\* C10: getVMIds returns the id and name of exactly the listed resources whose
\* name matches the filter, in the listing's order; without a filter, or with
\* the empty filter, of every listed resource.
C10_NameFilter ==
    pc = "awaiting" =>
        /\ Len(vmIds) = Cardinality(Listed)
        /\ \A j \in 1..Len(vmIds) :
             vmIds[j] = [id |-> listing[ListedAt(j)].id, name |-> listing[ListedAt(j)].name]
        /\ ("filter" \notin DOMAIN options \/ options["filter"] = <<>>)
             => Len(vmIds) = Len(listing)

C10_WitnessOptions == [filter |-> <<"^", "w">>]

C10_WitnessListing == ListingOf(<< <<"w", "d">>, <<"d", "w">>, <<"w">> >>)

C10_WitnessIds == <<[id |-> 1, name |-> <<"w", "d">>], [id |-> 3, name |-> <<"w">>]>>

C10_Witness ==
    /\ pc = "awaiting"
    /\ options = C10_WitnessOptions
    /\ listing = C10_WitnessListing
    /\ vmIds = C10_WitnessIds

----------------------------------------------------------------------------
(* Property of the unit transform (under SpecTransform) *)

\* the value the one point of a raw series carries
PointValue(point) ==
    IF "average" \in DOMAIN point /\ point.average # JNull THEN point.average[1]
    ELSE IF "minimum" \in DOMAIN point /\ point.minimum # JNull THEN point.minimum[1]
    ELSE point.maximum[1]

\* the fraction q is the number v divided by 1,000,000,000, in lowest terms
IsBillionth(q, v) ==
    /\ q.den > 0
    /\ 1000000000 % q.den = 0
    /\ q.num * (1000000000 \div q.den) = v
    /\ \A g \in 2..10 : ~(q.num % g = 0 /\ q.den % g = 0)

\* C11: the value written for a point of value v is v divided by
\* 1,000,000,000 when the metric is ram, and v itself for every other
\* metric (cpu, memory_percent, disk).
C11_UnitTransform ==
    \A i \in DOMAIN received :
        HasSeries(i) =>
            LET v   == PointValue(RawSeriesOf(i)[1])
                out == data[vmIds[i].name][1][2]
            IN  IF metricType = "ram"
                THEN IsBillionth(out, v)
                ELSE out = [num |-> v, den |-> 1]

C11_WitnessSeries == <<<<1, [num |-> 2, den |-> 1]>>>>

C11_Witness ==
    /\ pc = "returned"
    /\ metricType = "ram"
    /\ PointValue(RawSeriesOf(1)[1]) = 2000000000
    /\ result.data[Web] = C11_WitnessSeries

----------------------------------------------------------------------------
(* Ordering, progress and aggregation properties of a run (under Spec) *)

\* the places of the command log that hold a metrics query
MetricsStarted == {k \in 1..Len(execLog) : execLog[k].cmd = "monitor metrics list"}

\* the run ended before any fetch completed: in the resolution or the listing
EndedBeforeFanOut ==
    \/ pc = "exited" /\ order = <<>>
    \/ pc = "rejected"

\* the names of the properties every object literal has without being given
\* them
OnEveryObject == ObjectPrototypeMethods \cup {"constructor", "__proto__"}

\* the lookup of the requested pair finds nothing: it is not configured, and
\* neither word names a property every object has
LookupFindsNothing ==
    /\ ~PairConfigured
    /\ RequestedType \notin OnEveryObject
    /\ RequestedMetric \notin OnEveryObject

\* C12: a metrics query is started only by the step that ends the listing,
\* after the interval and the metric name were resolved and behind the
\* listing command, one per resource the listing gave; a run whose
\* resolution fails (the lookup finds nothing) or that ends in the listing
\* has started no metrics query.
C12_FanOutAfterListing ==
    /\ [](MetricsStarted # {} =>
            /\ fatal # "unsupported"
            /\ metrics # ""
            /\ PairConfigured =>
                  metrics = metricNamesForResourceType[RequestedType][RequestedMetric]
            /\ \E e \in Catalog : intervalValue = e.display
            /\ execLog[1].cmd = "resource list"
            /\ MetricsStarted = 2..(Len(vmIds) + 1)
            /\ \A k \in MetricsStarted :
                 execLog[k].metric = metrics /\ execLog[k].interval = intervalValue)
    /\ [](EndedBeforeFanOut \/ fatal = "unsupported" \/ LookupFindsNothing
            => MetricsStarted = {})
    /\ [][(MetricsStarted' # MetricsStarted) => (pc = "resolved" /\ pc' = "awaiting")]_vars

C12_Witness ==
    /\ pc = "awaiting"
    /\ order = <<>>
    /\ Len(vmIds) = 3
    /\ Cardinality(MetricsStarted) = 3
    /\ metrics = "storage_percent"

\* the progress lines of a run over total resources whose fetches all succeed
FullProgress(total) == [k \in 1..(total + 1) |-> <<k - 1, total>>]

\* the listing command exited with 0, printed JSON, and the name filter did
\* not throw: getVMIds returned
ListingSucceeded ==
    /\ listOutput # NoOutput
    /\ listOutput.code = 0
    /\ listOutput.json
    /\ ~FilterThrows(options, listing)

\* C13: in every run whose listing succeeds the first progress line is
\* (0, total), written once the listing has returned; in a run that returns,
\* the lines are exactly (0, total), (1, total), ..., (total, total). (It
\* fails when stdout is not a terminal: the first logProgress() throws and no
\* line is ever written.)
C13_ProgressSequence ==
    ListingSucceeded =>
        /\ progress # <<>>
        /\ progress[1] = <<0, Len(vmIds)>>
        /\ pc = "returned" => progress = FullProgress(Len(vmIds))

\* the names of the resources whose fetch gave a series
LabelsWithSeries == {vmIds[i].name : i \in {j \in Positions : HasSeries(j)}}

\* among the resources named l that gave a series, the one that completed last
LastCompleted(l) ==
    CHOOSE i \in Positions :
        /\ HasSeries(i) /\ vmIds[i].name = l
        /\ \A j \in Positions :
             HasSeries(j) /\ vmIds[j].name = l => PlaceOf(j) <= PlaceOf(i)

\* C14: the keys of the returned map are exactly the names of the resources
\* that gave a series, unchanged; the one entry of a name shared by several
\* such resources is the normalized series of the one whose fetch completed
\* last, not a combination of their series. (It fails for resources named
\* '__proto__': the assignment sets the prototype of the map and adds no
\* entry.)
C14_LastWriteWins ==
    pc = "returned" =>
        /\ DOMAIN result.data = LabelsWithSeries
        /\ \A l \in LabelsWithSeries : result.data[l] = NormalizedOf(LastCompleted(l))

\* the fetches in flight: started and not completed
InFlight == Positions \ Range(order)

\* C15: once the listing has succeeded, one metrics query per listed resource
\* has been started, each resource once, and all those not completed are in
\* flight. (It fails when stdout is not a terminal: the run ends after the
\* listing with no query started.)
C15_AllStartedOnce ==
    ListingSucceeded =>
        /\ Len(execLog) = Len(vmIds) + 1
        /\ \A i \in Positions :
             Cardinality({k \in MetricsStarted : execLog[k].resource = vmIds[i].id}) = 1
        /\ pc = "awaiting" => pending = InFlight

\* the assignment data[label] = series of position i has taken effect: the
\* entry of its name exists, or, for the name '__proto__', the prototype of
\* the map is an array
WriteDone(i) ==
    IF vmIds[i].name = ProtoKey
    THEN dataProto.kind = "array"
    ELSE vmIds[i].name \in DOMAIN result.data

\* C16: execute returns only when the fetch of every listed resource has
\* completed: at the return completedQueries = totalQueries, nothing is in
\* flight, the returned map is the accumulated one with the entry of every
\* resource that gave a series, and no step writes to the map afterwards.
C16_ReturnAfterAllSettled ==
    /\ [](pc = "returned" =>
            /\ result.returned
            /\ completedQueries = totalQueries
            /\ pending = {}
            /\ InFlight = {}
            /\ result.data = data
            /\ \A i \in Positions : HasSeries(i) => WriteDone(i))
    /\ [](pc # "returned" => result = NoResult)
    /\ [][(result' # result) =>
            (completedQueries = totalQueries /\ Len(order) = Len(vmIds))]_vars
    /\ [][(pc = "returned") =>
            (data' = data /\ dataProto' = dataProto /\ result' = result)]_vars

C16_Witness ==
    /\ pc = "returned"
    /\ Len(vmIds) = 2
    /\ order = <<2, 1>>
    /\ completedQueries = 2
    /\ Cardinality(DOMAIN result.data) = 2

\* the run is over: execute returned or the process exited
Ended == pc \in {"returned", "exited", "rejected"}

\* every listed resource's fetch has completed with exit code 0 and an output
\* getTimeSeries reads without throwing
AllFetchesSucceeded ==
    \A i \in Positions :
        /\ i \in DOMAIN received
        /\ received[i].code = 0
        /\ received[i].json
        /\ "value" \in DOMAIN received[i].doc
        /\ Len(received[i].doc.value) > 0
        /\ "timeseries" \in DOMAIN received[i].doc.value[1]

\* C17: when every started command eventually completes, every run
\* eventually ends; it stays ended; it ends by returning the map, and then
\* the fetch of every listed resource succeeded, or without a result: by
\* exiting with a fatal cause or, when the metric lookup throws, by rejecting
\* before any command was started; a run never stays waiting after some
\* fetch completed.
C17_RunEnds ==
    /\ <>Ended
    /\ (pc = "awaiting" /\ order # <<>>) ~> Ended
    /\ [](pc = "returned" => AllFetchesSucceeded /\ result.returned)
    /\ [](pc = "exited" => fatal # "none" /\ result = NoResult)
    /\ [](pc = "rejected" => result = NoResult /\ execLog = <<>>)
    /\ [](pc = "awaiting" /\ pending = {} => AllFetchesSucceeded)
    /\ [][Ended => (pc' = pc)]_vars

C17_Witness ==
    /\ pc = "exited"
    /\ fatal = "exception"
    /\ Len(vmIds) = 3
    /\ Len(order) = 3
    /\ pending = {}

----------------------------------------------------------------------------
(* Property of the run on malformed outputs (under SpecMalformed) *)

\* the listing command exited with 0 and printed something that is not JSON
MalformedListing ==
    /\ listOutput # NoOutput
    /\ listOutput.code = 0
    /\ ~listOutput.json

\* the metrics query of position i exited with 0 and printed something that is
\* not JSON or a payload without `value`, with no element in `value`, or
\* without `timeseries` in its first element
MalformedAt(i) ==
    /\ received[i].code = 0
    /\ \/ ~received[i].json
       \/ "value" \notin DOMAIN received[i].doc
       \/ Len(received[i].doc.value) = 0
       \/ "timeseries" \notin DOMAIN received[i].doc.value[1]

\* C18: a listing output that is not JSON, and a metrics output that is not
\* JSON or lacks the value / timeseries structure, end the run like a failed
\* command: the process exits at once (from the catch block), no map is
\* returned whatever was accumulated, and no command is started again.
C18_MalformedIsFatal ==
    /\ [](MalformedListing =>
            /\ pc = "exited"
            /\ fatal = "exception"
            /\ result = NoResult
            /\ Len(execLog) = 1
            /\ progress = <<>>)
    /\ [](\A i \in DOMAIN received :
            MalformedAt(i) =>
                /\ pc = "exited"
                /\ fatal = "exception"
                /\ result = NoResult
                /\ order[Len(order)] = i
                /\ Len(progress) = Len(order)
                /\ Len(execLog) = Len(vmIds) + 1)
    /\ [][(pc' = "exited") => (MetricsStarted' = MetricsStarted /\ progress' = progress)]_vars
    /\ [][(pc = "exited") => (pc' = "exited" /\ result' = NoResult)]_vars

C18_Witness ==
    /\ pc = "exited"
    /\ fatal = "exception"
    /\ Len(vmIds) = 3
    /\ Len(order) = 2
    /\ MalformedAt(order[2])
    /\ received[order[2]].json
    /\ Cardinality(DOMAIN data) = 1
    /\ result = NoResult

----------------------------------------------------------------------------
(* Frame of a completion handler (under Spec) *)

\* the step runs the completion handler of one fetch to its end
HandlerRan == order' # order /\ pc' # "exited"

----------------------------------------------------------------------------
(* The run over an empty listing (under Spec) *)

\* the listing succeeded and no listed resource passes the name filter
NoResourceListed ==
    /\ ListingSucceeded
    /\ \A k \in 1..Len(listing) :
         /\ "filter" \in DOMAIN options
         /\ options["filter"] # <<>>
         /\ ~NameMatches(options["filter"], listing[k].name)

C20_OnlyProgress == <<<<0, 0>>>>

C20_EmptyResult == [returned |-> TRUE, data |-> EmptyObject]

\* C20: when the listing holds no resource, or none that passes the name
\* filter, no metrics query is started, the one progress line is (0, 0), the
\* process does not exit, and what execute returns is the empty map. (It
\* fails when stdout is not a terminal: the first logProgress() throws and the
\* process exits.)
C20_EmptyListing ==
    NoResourceListed =>
        /\ vmIds = <<>>
        /\ MetricsStarted = {}
        /\ progress = C20_OnlyProgress
        /\ pc # "exited"
        /\ pc = "returned" => result = C20_EmptyResult

====
